---- MODULE Spec2Model ----
(***************************************************************************)
(* Model of the chunker of the lexical retrieval core (src/src/chunker.rs):*)
(* chunk_text, chunk_text_parallel and chunk_by_tokens.                    *)
(*                                                                         *)
(* A Rust &str is valid UTF-8: a sequence of bytes.  A byte is modelled as *)
(* the record [ch, ix]: the character it encodes and its position inside   *)
(* that character's encoding (ix = 1 is the lead byte).  text.len() is the *)
(* number of bytes; text[a..b] slices bytes and panics when a or b is not  *)
(* a character boundary.                                                   *)
(***************************************************************************)
EXTENDS Integers, Sequences, FiniteSets, TLC

\* ---------------------------------------------------------------- bounds
MaxChars == 4       \* characters of the text given to chunk_text(_parallel)
MaxTokChars == 5    \* characters of the text given to chunk_by_tokens
MaxSize == 4        \* chunk_size, max_tokens
MaxOverlap == 4     \* overlap, overlap_tokens

\* ------------------------------------------------------------ characters
\* "a": ASCII letter (1 byte); "U": a non-ASCII letter such as U+00E9
\* (2 bytes); " ": ASCII space; ",": ASCII punctuation.
Alphabet == {"a", "U", " ", ","}

\* The tokenizer also meets "A" and "b" (ASCII letters), "'" (apostrophe),
\* "D": U+0130, capital I with dot above (2 bytes), whose lowercase is the
\* two characters "i" and "m": U+0307, combining dot above (2 bytes, a mark:
\* not alphanumeric).
TokenizeAlphabet == {"a", "A", "'", ",", "D"}

\* The character windows never look at what a character is, only at how
\* many bytes it takes: two different 1-byte characters and a 2-byte one.
WindowAlphabet == {"a", " ", "U"}

Utf8Width(c) == IF c \in {"U", "D", "m"} THEN 2 ELSE 1

IsAlphanumeric(c) == c \in {"a", "b", "A", "i", "U", "D"}

IsWhitespace(c) == c = " "

IsWordChar(c) == IsAlphanumeric(c) \/ c = "'"

Min(a, b) == IF a <= b THEN a ELSE b

\* The UTF-8 encoding of one character, and of a sequence of characters.
EncodeChar(c) == [k \in 1..Utf8Width(c) |-> [ch |-> c, ix |-> k]]

RECURSIVE Encode(_)
Encode(cs) == IF cs = <<>> THEN <<>> ELSE EncodeChar(Head(cs)) \o Encode(Tail(cs))

IsLead(b) == b.ix = 1

\* str::chars(): the characters a byte string encodes.
RECURSIVE Chars(_)
Chars(t) ==
    IF t = <<>> THEN <<>>
    ELSE IF IsLead(Head(t)) THEN <<Head(t).ch>> \o Chars(Tail(t))
    ELSE Chars(Tail(t))

\* str::is_char_boundary(i), i a byte offset (0-based).
IsCharBoundary(t, i) ==
    \/ i = 0
    \/ i = Len(t)
    \/ (0 < i /\ i < Len(t) /\ IsLead(t[i + 1]))

\* text[a..b] succeeds exactly when a <= b <= len and both are boundaries.
SliceOk(t, a, b) ==
    /\ a <= b
    /\ b <= Len(t)
    /\ IsCharBoundary(t, a)
    /\ IsCharBoundary(t, b)

\* The bytes of text[a..b].
Slice(t, a, b) == SubSeq(t, a + 1, b)

CharSeqs(alphabet, n) == UNION {[1..k -> alphabet] : k \in 0..n}

\* ------------------------------------------------------------ chunk_text
\* Mutant of Step: the windows do not overlap.
StepIgnoresOverlap(size, ov) == size

\* Mutant of Step: the step is not forced to 1.
StepNotForced(size, ov) == IF ov >= size THEN 0 ELSE size - ov

\* let step = if overlap >= chunk_size { 1 } else { chunk_size - overlap };
Step(size, ov) == IF ov >= size THEN 1 ELSE size - ov

\* let end = (start + chunk_size).min(text.len());
WindowEnd(s, size, len) == Min(s + size, len)

\* ----------------------------------------------------------------- state
VARIABLES
    text,            \* the &str argument, as bytes
    chunk_size,      \* chunk_size / max_tokens
    overlap,         \* overlap / overlap_tokens
    pc,              \* chunk_text: "call", "loop", "done", "panic"
    start,           \* chunk_text: let mut start
    chunks,          \* chunk_text: let mut chunks
    spans,           \* chunk_text: the (start, end) of every chunk pushed
    iters,           \* chunk_text: number of loop iterations begun
    ppc,             \* chunk_text_parallel: "call", "bounds", "extract", "done", "panic"
    pstart,          \* chunk_text_parallel: let mut start
    boundaries,      \* chunk_text_parallel: let mut boundaries
    pending,         \* boundary indices whose map closure has not run yet
    out,             \* the collect target: one slot per boundary
    worker_panicked, \* some map closure panicked
    pchunks,         \* chunk_text_parallel: the returned Vec
    tpc,             \* chunk_by_tokens: "call", "loop", "done"
    word_spans,      \* chunk_by_tokens: word_spans
    ti,              \* chunk_by_tokens: let mut i
    tchunks,         \* chunk_by_tokens: let mut chunks
    tspans,          \* chunk_by_tokens: the word window [i, end_idx) of every chunk
    zpc,             \* tokenizer: "call", "done"
    tokens,          \* tokenize: the returned Vec
    ntokens,         \* token_count: the returned count
    bpc,             \* BM25Index: "new" before BM25Index::new, "ready" once
                     \* built, "searched" once search has been called
    documents,       \* BM25Index::new: the documents argument
    index,           \* the BM25Index: df, tf, doc_lengths, avg_dl, n_docs, k1, b
    query,           \* search: the query argument of the last call
    top_k,           \* search: the top_k argument of the last call
    results,         \* search: the Vec the last call returned
    quotients,       \* search: the (document, query token) pairs for which the
                     \* last call evaluated doc_len / avg_dl
    size_ret         \* __len__: the value the last call returned (-1: no call)

args == <<text, chunk_size, overlap>>
seqVars == <<pc, start, chunks, spans, iters>>
parVars == <<ppc, pstart, boundaries, pending, out, worker_panicked, pchunks>>
tokVars == <<tpc, word_spans, ti, tchunks, tspans>>
tkzVars == <<zpc, tokens, ntokens>>
bmVars == <<bpc, documents, index, query, top_k, results, quotients, size_ret>>
libVars == <<tkzVars, bmVars>>
vars == <<args, seqVars, parVars, tokVars, libVars>>

\* A HashMap with no entry.
EmptyMap == [x \in {} |-> 0]

\* No BM25Index has been built.
NoIndex ==
    [df |-> EmptyMap, tf |-> <<>>, doc_lengths |-> <<>>,
     avg_dl |-> [num |-> 0, den |-> 1], n_docs |-> 0, k1 |-> 0, b |-> 0]

NotCalled ==
    /\ bpc = "new" /\ documents = <<>> /\ index = NoIndex /\ query = <<>>
    /\ top_k = 0 /\ results = <<>> /\ quotients = {} /\ size_ret = -1
    /\ pc = "call" /\ start = 0 /\ chunks = <<>> /\ spans = <<>> /\ iters = 0
    /\ ppc = "call" /\ pstart = 0 /\ boundaries = <<>> /\ pending = {}
    /\ out = <<>> /\ worker_panicked = FALSE /\ pchunks = <<>>
    /\ tpc = "call" /\ word_spans = <<>> /\ ti = 0 /\ tchunks = <<>> /\ tspans = <<>>
    /\ zpc = "call" /\ tokens = <<>> /\ ntokens = 0

\* A caller about to chunk a text by character windows: chunk_text, then
\* chunk_text_parallel with the same arguments.
Init ==
    /\ \E cs \in CharSeqs(WindowAlphabet, MaxChars) : text = Encode(cs)
    /\ chunk_size \in 0..MaxSize
    /\ overlap \in 0..MaxOverlap
    /\ NotCalled

\* A caller about to chunk a text by token windows.
InitTokens ==
    /\ \E cs \in CharSeqs(Alphabet, MaxTokChars) : text = Encode(cs)
    /\ chunk_size \in 0..MaxSize
    /\ overlap \in 0..MaxOverlap
    /\ NotCalled

\* chunk_text, lines 10-30: the early returns and the loop's set-up.
ChunkTextCall ==
    /\ pc = "call"
    /\ IF Len(text) = 0 \/ chunk_size = 0
       THEN pc' = "done" /\ chunks' = <<>> /\ spans' = <<>>
       ELSE IF Len(text) <= chunk_size
       THEN pc' = "done" /\ chunks' = <<text>> /\ spans' = <<<<0, Len(text)>>>>
       ELSE pc' = "loop" /\ chunks' = <<>> /\ spans' = <<>>
    /\ start' = 0
    /\ UNCHANGED <<libVars, args, iters, parVars, tokVars>>

\* chunk_text, lines 32-41: one iteration of the while loop.
ChunkTextLoop ==
    /\ pc = "loop"
    /\ IF start < Len(text)
       THEN LET end == WindowEnd(start, chunk_size, Len(text)) IN
            /\ iters' = iters + 1
            /\ IF ~SliceOk(text, start, end)
               THEN pc' = "panic" /\ UNCHANGED <<start, chunks, spans>>
               ELSE /\ chunks' = Append(chunks, Slice(text, start, end))
                    /\ spans' = Append(spans, <<start, end>>)
                    /\ IF end = Len(text)
                       THEN pc' = "done" /\ start' = start
                       ELSE pc' = "loop" /\ start' = start + Step(chunk_size, overlap)
       ELSE pc' = "done" /\ UNCHANGED <<start, chunks, spans, iters>>
    /\ UNCHANGED <<libVars, args, parVars, tokVars>>

\* --------------------------------------------------- chunk_text_parallel
\* An output slot no worker has written.
NoChunk == <<[ch |-> "none", ix |-> 0]>>

\* Mutant of SlotWrite: the results are kept in the order the closures end.
SlotWriteInCompletionOrder(o, i, s) ==
    [o EXCEPT ![Cardinality({k \in DOMAIN o : o[k] # NoChunk}) + 1] = s]

\* collect() of an indexed parallel iterator: the closure run on boundary i
\* writes the slot i of the target.
SlotWrite(o, i, s) == [o EXCEPT ![i] = s]

\* chunk_text_parallel, lines 58-74: the early returns and the loop's set-up.
\* The caller runs it once chunk_text has ended.
ParCall ==
    /\ ppc = "call"
    /\ pc \in {"done", "panic"}
    /\ IF Len(text) = 0 \/ chunk_size = 0
       THEN ppc' = "done" /\ pchunks' = <<>>
       ELSE IF Len(text) <= chunk_size
       THEN ppc' = "done" /\ pchunks' = <<text>>
       ELSE ppc' = "bounds" /\ pchunks' = <<>>
    /\ pstart' = 0
    /\ boundaries' = <<>>
    /\ UNCHANGED <<libVars, args, seqVars, pending, out, worker_panicked, tokVars>>

\* chunk_text_parallel, lines 76-85: one iteration of the boundary loop; the
\* last one hands the boundaries to par_iter().
ParBoundary ==
    /\ ppc = "bounds"
    /\ LET end == WindowEnd(pstart, chunk_size, Len(text))
           last == ~(pstart < Len(text)) \/ end = Len(text)
           bs == IF pstart < Len(text)
                 THEN Append(boundaries, <<pstart, end>>)
                 ELSE boundaries
       IN
       /\ boundaries' = bs
       /\ IF last
          THEN /\ ppc' = "extract"
               /\ pending' = 1..Len(bs)
               /\ out' = [i \in 1..Len(bs) |-> NoChunk]
               /\ pstart' = pstart
          ELSE /\ ppc' = "bounds"
               /\ pstart' = pstart + Step(chunk_size, overlap)
               /\ UNCHANGED <<pending, out>>
    /\ UNCHANGED <<libVars, args, seqVars, worker_panicked, pchunks, tokVars>>

\* chunk_text_parallel, line 90: the map closure on boundary i, run by any
\* worker at any time.
ParWorker(i) ==
    /\ ppc = "extract"
    /\ i \in pending
    /\ pending' = pending \ {i}
    /\ LET s == boundaries[i][1]
           e == boundaries[i][2]
       IN
       IF SliceOk(text, s, e)
       THEN out' = SlotWrite(out, i, Slice(text, s, e)) /\ UNCHANGED worker_panicked
       ELSE worker_panicked' = TRUE /\ UNCHANGED out
    /\ UNCHANGED <<libVars, args, seqVars, ppc, pstart, boundaries, pchunks, tokVars>>

\* chunk_text_parallel, line 91: collect() returns the filled target, or
\* resumes the panic of a closure (the target is then dropped, and closures
\* that have not run yet may never run).
ParCollect ==
    /\ ppc = "extract"
    /\ pending = {} \/ worker_panicked
    /\ IF worker_panicked
       THEN ppc' = "panic" /\ pchunks' = <<>>
       ELSE ppc' = "done" /\ pchunks' = out
    /\ pending' = {}
    /\ out' = <<>>
    /\ UNCHANGED <<libVars, args, seqVars, pstart, boundaries, worker_panicked, tokVars>>

\* ------------------------------------------------------- chunk_by_tokens
\* Lines 108-126: the scan of text.char_indices(); k is the 1-based byte
\* position, so the char index i of the code is k - 1.
RECURSIVE ScanWords(_, _, _, _, _)
ScanWords(t, k, in_word, word_start, ws) ==
    IF k > Len(t)
    THEN IF in_word THEN Append(ws, <<word_start, Len(t)>>) ELSE ws
    ELSE IF ~IsLead(t[k])
    THEN ScanWords(t, k + 1, in_word, word_start, ws)
    ELSE IF IsWordChar(t[k].ch)
    THEN IF ~in_word
         THEN ScanWords(t, k + 1, TRUE, k - 1, ws)
         ELSE ScanWords(t, k + 1, in_word, word_start, ws)
    ELSE IF in_word
    THEN ScanWords(t, k + 1, FALSE, word_start, Append(ws, <<word_start, k - 1>>))
    ELSE ScanWords(t, k + 1, in_word, word_start, ws)

WordSpans(t) == ScanWords(t, 1, FALSE, 0, <<>>)

\* str::trim(): drop leading and trailing whitespace.
RECURSIVE TrimStart(_)
TrimStart(t) ==
    IF t # <<>> /\ IsWhitespace(Head(t).ch) THEN TrimStart(Tail(t)) ELSE t

RECURSIVE TrimEnd(_)
TrimEnd(t) ==
    IF t # <<>> /\ IsWhitespace(t[Len(t)].ch) THEN TrimEnd(SubSeq(t, 1, Len(t) - 1)) ELSE t

\* Mutant of Trim: only the leading whitespace is dropped.
TrimLeadingOnly(t) == TrimStart(t)

Trim(t) == TrimEnd(TrimStart(t))

\* Mutant of ChunkEnd: the chunk runs on to the start of the next word.
ChunkEndAtNextWord(ws, end_idx) ==
    IF end_idx < Len(ws) THEN ws[end_idx + 1][1] ELSE ws[end_idx][2]

\* let chunk_end = word_spans[end_idx - 1].1;
ChunkEnd(ws, end_idx) == ws[end_idx][2]

\* let chunk_start = word_spans[i].0;
ChunkStart(ws, i) == ws[i + 1][1]

\* chunk_by_tokens, lines 103-143: the early returns, the word scan and the
\* loop's set-up.  max_tokens is chunk_size, overlap_tokens is overlap.
TokCall ==
    /\ tpc = "call"
    /\ LET ws == WordSpans(text) IN
       IF Len(text) = 0 \/ chunk_size = 0
       THEN tpc' = "done" /\ tchunks' = <<>> /\ tspans' = <<>> /\ word_spans' = <<>>
       ELSE /\ word_spans' = ws
            /\ IF Len(ws) = 0
               THEN tpc' = "done" /\ tchunks' = <<>> /\ tspans' = <<>>
               ELSE IF Len(ws) <= chunk_size
               THEN tpc' = "done" /\ tchunks' = <<Trim(text)>> /\ tspans' = <<<<0, Len(ws)>>>>
               ELSE tpc' = "loop" /\ tchunks' = <<>> /\ tspans' = <<>>
    /\ ti' = 0
    /\ UNCHANGED <<libVars, args, seqVars, parVars>>

\* chunk_by_tokens, lines 145-158: one iteration of the while loop.
TokLoop ==
    /\ tpc = "loop"
    /\ IF ti < Len(word_spans)
       THEN LET end_idx == WindowEnd(ti, chunk_size, Len(word_spans))
                chunk_start == ChunkStart(word_spans, ti)
                chunk_end == ChunkEnd(word_spans, end_idx)
            IN
            /\ tchunks' = Append(tchunks, Slice(text, chunk_start, chunk_end))
            /\ tspans' = Append(tspans, <<ti, end_idx>>)
            /\ IF end_idx = Len(word_spans)
               THEN tpc' = "done" /\ ti' = ti
               ELSE tpc' = "loop" /\ ti' = ti + Step(chunk_size, overlap)
       ELSE tpc' = "done" /\ UNCHANGED <<ti, tchunks, tspans>>
    /\ UNCHANGED <<libVars, args, seqVars, parVars, word_spans>>

Next ==
    \/ ChunkTextCall
    \/ ChunkTextLoop
    \/ ParCall
    \/ ParBoundary
    \/ \E i \in 1..(2 * MaxChars) : ParWorker(i)
    \/ ParCollect

Spec == Init /\ [][Next]_vars

NextTokens ==
    \/ TokCall
    \/ TokLoop

SpecTokens == InitTokens /\ [][NextTokens]_vars

\* ======================================================== the properties
CharLen(t) == Len(Chars(t))

DropFirst(s, n) == SubSeq(s, Min(n, Len(s)) + 1, Len(s))

TakeFirst(s, n) == SubSeq(s, 1, Min(n, Len(s)))

TakeLast(s, n) == SubSeq(s, Len(s) - Min(n, Len(s)) + 1, Len(s))

RECURSIVE Flatten(_)
Flatten(ss) == IF ss = <<>> THEN <<>> ELSE Head(ss) \o Flatten(Tail(ss))

\* Chunk 0 in full, then every later chunk without its first n characters.
RebuildChars(cks, n) ==
    Flatten([i \in 1..Len(cks) |->
                IF i = 1 THEN Chars(cks[i]) ELSE DropFirst(Chars(cks[i]), n)])

\* Chunk 0 in full, then every later chunk without its first n bytes.
RebuildBytes(cks, n) ==
    Flatten([i \in 1..Len(cks) |-> IF i = 1 THEN cks[i] ELSE DropFirst(cks[i], n)])

Returned == pc = "done"
Ended == pc \in {"done", "panic"}
ParEnded == ppc \in {"done", "panic"}

\* C1: for 0 < overlap < chunk_size < length of the text (in characters),
\* chunk_text returns, and chunk 0 followed by every later chunk without its
\* first `overlap` characters is the text.
C1_ContentPreserved ==
    (Ended /\ 0 < overlap /\ overlap < chunk_size /\ chunk_size < CharLen(text))
        => (Returned /\ RebuildChars(chunks, overlap) = Chars(text))

\* C2: whatever the order in which the closures of chunk_text_parallel run,
\* its outcome is the outcome of chunk_text on the same arguments: the same
\* chunks in the same order, byte for byte, or a panic where chunk_text
\* panics.
C2_ParallelMatchesSequential ==
    ParEnded =>
        /\ (ppc = "panic") <=> (pc = "panic")
        /\ ppc = "done" => pchunks = chunks

\* C2 happens: a parallel call has returned at least three chunks, not all
\* the same.
C2_Witness ==
    /\ ppc = "done"
    /\ Len(pchunks) >= 3
    /\ pchunks[1] # pchunks[2]
    /\ pchunks[2] # pchunks[3]

\* C3: every window start and end that chunk_text and chunk_text_parallel
\* compute is a character boundary of the text, and neither call fails.
C3_NeverSplitsACharacter ==
    /\ pc # "panic"
    /\ ppc # "panic"
    /\ \A i \in 1..Len(spans) :
          IsCharBoundary(text, spans[i][1]) /\ IsCharBoundary(text, spans[i][2])
    /\ \A i \in 1..Len(boundaries) :
          IsCharBoundary(text, boundaries[i][1]) /\ IsCharBoundary(text, boundaries[i][2])

\* C4: chunk_text of the empty text is empty, chunk_text with chunk_size 0
\* is empty, and a non-empty text of at most chunk_size characters comes
\* back as one chunk, the whole text.
C4_DegenerateInputs ==
    Ended =>
        /\ Len(text) = 0 => (Returned /\ chunks = <<>>)
        /\ chunk_size = 0 => (Returned /\ chunks = <<>>)
        /\ (Len(text) > 0 /\ CharLen(text) <= chunk_size)
              => (Returned /\ chunks = <<text>>)

\* C5: every iteration of chunk_text's loop that goes round again has moved
\* start forward, and the loop never begins more iterations than the text
\* has characters.
C5_Terminates ==
    /\ [](iters <= CharLen(text))
    /\ [][(pc = "loop" /\ pc' = "loop") => start' > start]_vars

\* C5 happens: a call whose step was forced to 1 has ended after as many
\* iterations as the text has characters.
C5_Witness ==
    /\ pc = "done"
    /\ overlap >= chunk_size
    /\ iters >= 3
    /\ iters = CharLen(text)

\* Both offsets of the windows in sp never decrease along sp.
Monotone(sp) ==
    \A i \in 1..(Len(sp) - 1) : sp[i][1] <= sp[i + 1][1] /\ sp[i][2] <= sp[i + 1][2]

\* The byte offsets at which a word (a maximal run of word characters) of t
\* starts, and those just after the last byte of a word.
WordStartSet(t) ==
    {k \in 0..(Len(t) - 1) :
        /\ IsLead(t[k + 1])
        /\ IsWordChar(t[k + 1].ch)
        /\ (k = 0 \/ ~IsWordChar(t[k].ch))}

WordEndSet(t) ==
    {k \in 1..Len(t) :
        /\ IsWordChar(t[k].ch)
        /\ (k = Len(t) \/ (IsLead(t[k + 1]) /\ ~IsWordChar(t[k + 1].ch)))}

NumWords(t) == Cardinality(WordStartSet(t))

\* The n-th smallest element of a set of numbers, n from 1.
Nth(S, n) == CHOOSE x \in S : Cardinality({y \in S : y < x}) = n - 1

\* t from its first to its last character that is not whitespace.
Trimmed(t) ==
    LET keep == {k \in 1..Len(t) : ~IsWhitespace(t[k].ch)} IN
    IF keep = {} THEN <<>>
    ELSE SubSeq(t, CHOOSE a \in keep : \A b \in keep : a <= b,
                   CHOOSE a \in keep : \A b \in keep : a >= b)

\* C6: on a non-empty text with size >= 1, chunk_text and chunk_by_tokens
\* return chunks whose start offsets and end offsets never decrease, none of
\* them empty, the last one ending at the length of the text (at the number
\* of words).
C6_ChunkSequence ==
    /\ (Ended /\ Len(text) > 0 /\ chunk_size >= 1) =>
          /\ Returned
          /\ chunks # <<>>
          /\ Monotone(spans)
          /\ \A i \in 1..Len(chunks) : chunks[i] # <<>>
          /\ spans[Len(spans)][2] = Len(text)
    /\ (tpc = "done" /\ Len(text) > 0 /\ chunk_size >= 1) =>
          /\ Monotone(tspans)
          /\ \A i \in 1..Len(tchunks) : tchunks[i] # <<>>
          /\ tspans # <<>> => tspans[Len(tspans)][2] = NumWords(text)

\* C7: for 0 < overlap < chunk_size < length of the text (in characters),
\* chunk_text returns chunks of at most chunk_size characters, all but the
\* last of exactly chunk_size, and each chunk after the first has at least
\* `overlap` characters, its first `overlap` being the last `overlap` of
\* the chunk before it.
C7_Overlap ==
    (Ended /\ 0 < overlap /\ overlap < chunk_size /\ chunk_size < CharLen(text)) =>
        /\ Returned
        /\ \A i \in 1..Len(chunks) : CharLen(chunks[i]) <= chunk_size
        /\ \A i \in 1..(Len(chunks) - 1) :
              /\ CharLen(chunks[i]) = chunk_size
              /\ CharLen(chunks[i + 1]) >= overlap
              /\ TakeFirst(Chars(chunks[i + 1]), overlap)
                    = TakeLast(Chars(chunks[i]), overlap)

TokReturned == tpc = "done"

\* C9 as stated: chunk_by_tokens of the empty text, or with max_tokens 0,
\* is empty; a non-empty text with fewer words than max_tokens comes back
\* as one chunk, the trimmed text.
C9_FewerWordsOneChunk ==
    TokReturned =>
        /\ (Len(text) = 0 \/ chunk_size = 0) => tchunks = <<>>
        /\ (Len(text) > 0 /\ NumWords(text) < chunk_size)
              => tchunks = <<Trimmed(text)>>

\* C9 amended: chunk_by_tokens of the empty text, or with max_tokens 0, is
\* empty; a text with at least one word and fewer words than max_tokens
\* comes back as one chunk, the trimmed text; a non-empty text with no word
\* gives the empty sequence.
C9_DegenerateInputs ==
    TokReturned =>
        /\ (Len(text) = 0 \/ chunk_size = 0) => tchunks = <<>>
        /\ (1 <= NumWords(text) /\ NumWords(text) < chunk_size)
              => tchunks = <<Trimmed(text)>>
        /\ (Len(text) > 0 /\ NumWords(text) = 0) => tchunks = <<>>

\* C9 happens: a text with words, fewer than max_tokens, and whitespace
\* around them has come back as one chunk.
C9_Witness ==
    /\ TokReturned
    /\ 2 <= NumWords(text)
    /\ NumWords(text) < chunk_size
    /\ Len(tchunks) = 1
    /\ tchunks[1] # text

\* The text from the start of its word number a to the end of its word
\* number b (words counted from 1).
WordsText(t, a, b) == SubSeq(t, Nth(WordStartSet(t), a) + 1, Nth(WordEndSet(t), b))

\* C10 as stated: every chunk chunk_by_tokens returns, in the single-chunk
\* case too, is a piece of the text that starts at the first character of a
\* word and ends at the last character of a word.
C10_EveryChunkWordToWord ==
    TokReturned =>
        \A i \in 1..Len(tchunks) :
            /\ tchunks[i] # <<>>
            /\ IsWordChar(tchunks[i][1].ch)
            /\ IsWordChar(tchunks[i][Len(tchunks[i])].ch)
            /\ \E a \in WordStartSet(text), b \in WordEndSet(text) :
                  a < b /\ tchunks[i] = SubSeq(text, a + 1, b)

\* C10 amended: when the text has more words than max_tokens, every chunk
\* is the text from the first character of the first word of its window to
\* the last character of the last word of its window, everything between
\* kept, so it starts and ends with a word character; when the text has at
\* most max_tokens words the one chunk is the trimmed text, which holds the
\* text from its first word to its last word and may start or end with
\* punctuation.
C10_ChunksAreOriginalText ==
    TokReturned =>
        /\ NumWords(text) > chunk_size =>
              \A i \in 1..Len(tchunks) :
                  /\ tspans[i][1] < tspans[i][2]
                  /\ tspans[i][2] <= NumWords(text)
                  /\ tchunks[i] = WordsText(text, tspans[i][1] + 1, tspans[i][2])
                  /\ IsWordChar(tchunks[i][1].ch)
                  /\ IsWordChar(tchunks[i][Len(tchunks[i])].ch)
        /\ (1 <= NumWords(text) /\ NumWords(text) <= chunk_size /\ chunk_size >= 1) =>
              /\ tchunks = <<Trimmed(text)>>
              /\ \E a \in 0..Len(tchunks[1]), b \in 0..Len(tchunks[1]) :
                    /\ a <= b
                    /\ SubSeq(tchunks[1], a + 1, b) = WordsText(text, 1, NumWords(text))

\* C10 happens: a call has returned two chunks or more, one of them with
\* punctuation between two of its words.
C10_Witness ==
    /\ TokReturned
    /\ Len(tchunks) >= 2
    /\ \E i \in 1..Len(tchunks) : \E k \in 1..Len(tchunks[i]) : tchunks[i][k].ch = ","

\* The word window of chunk number i (from 0) when the windows advance by st
\* words: its first word and the word after its last, words counted from 0.
WindowFrom(i, st) == i * st
WindowTo(i, st) == Min(i * st + chunk_size, NumWords(text))

\* The chunks of a text with more words than max_tokens >= 1 are the word
\* windows that advance by st words and share `shared` words.
WindowStructure(st, shared) ==
    (TokReturned /\ chunk_size >= 1 /\ NumWords(text) > chunk_size) =>
        /\ tchunks # <<>>
        /\ \A i \in 0..(Len(tchunks) - 1) :
              /\ WindowFrom(i, st) < WindowTo(i, st)
              /\ WindowTo(i, st) - WindowFrom(i, st) <= chunk_size
              /\ tchunks[i + 1]
                    = WordsText(text, WindowFrom(i, st) + 1, WindowTo(i, st))
        /\ \A i \in 0..(Len(tchunks) - 2) :
              /\ i * st + chunk_size < NumWords(text)
              /\ WindowTo(i, st) - WindowFrom(i + 1, st) = shared
        /\ \A w \in 0..(NumWords(text) - 1) :
              \E i \in 0..(Len(tchunks) - 1) :
                  WindowFrom(i, st) <= w /\ w < WindowTo(i, st)

\* C11 as stated: on a text with more words than max_tokens, chunk i covers
\* the words [i*step, min(i*step + max_tokens, W)), step being max_tokens -
\* overlap_tokens or 1 when overlap_tokens >= max_tokens; every word is in a
\* chunk and adjacent chunks share exactly overlap_tokens words.
C11_SharesOverlapTokens ==
    WindowStructure(IF overlap >= chunk_size THEN 1 ELSE chunk_size - overlap, overlap)

\* C11 amended: the same, for max_tokens >= 1, but adjacent chunks share
\* exactly min(overlap_tokens, max_tokens - 1) words.
C11_WindowStructure ==
    WindowStructure(IF overlap >= chunk_size THEN 1 ELSE chunk_size - overlap,
                    Min(overlap, chunk_size - 1))

\* C11 happens: a call with 0 < overlap_tokens < max_tokens has returned two
\* chunks or more.
C11_Witness ==
    /\ TokReturned
    /\ 0 < overlap
    /\ overlap < chunk_size
    /\ Len(tchunks) >= 2

\* ============================================================= tokenizer
MaxTokenizeChars == 4    \* characters of the text given to tokenize

\* Mutant of IsSeparator: the apostrophe splits too.
IsSeparatorApostropheToo(c) == ~IsAlphanumeric(c)

\* |c: char| !c.is_alphanumeric() && c != '\''
IsSeparator(c) == ~IsAlphanumeric(c) /\ c # "'"

\* str::split(pred): the pieces of t between separator characters, the
\* empty ones too; k is the 1-based byte position, cur the piece begun.
RECURSIVE SplitOn(_, _, _, _)
SplitOn(t, k, cur, acc) ==
    IF k > Len(t) THEN Append(acc, cur)
    ELSE IF IsLead(t[k]) /\ IsSeparator(t[k].ch)
    THEN SplitOn(t, k + Utf8Width(t[k].ch), <<>>, Append(acc, cur))
    ELSE SplitOn(t, k + 1, Append(cur, t[k]), acc)

\* char::to_lowercase(): one character or more.
LowerChar(c) ==
    CASE c = "A" -> <<"a">>
      [] c = "D" -> <<"i", "m">>
      [] OTHER -> <<c>>

RECURSIVE LowerChars(_)
LowerChars(cs) ==
    IF cs = <<>> THEN <<>> ELSE LowerChar(Head(cs)) \o LowerChars(Tail(cs))

\* str::to_lowercase()
ToLowercase(t) == Encode(LowerChars(Chars(t)))

\* .filter(|s| !s.is_empty())
NonEmptyPieces(t) == SelectSeq(SplitOn(t, 1, <<>>, <<>>), LAMBDA f : f # <<>>)

\* tokenize, lines 7-12.
Tokenize(t) ==
    LET pieces == NonEmptyPieces(t) IN
    [i \in 1..Len(pieces) |-> ToLowercase(pieces[i])]

\* token_count, lines 15-19.
TokenCount(t) == Len(NonEmptyPieces(t))

\* A caller about to tokenize a text.
InitTokenize ==
    /\ \E cs \in CharSeqs(TokenizeAlphabet, MaxTokenizeChars) : text = Encode(cs)
    /\ chunk_size = 0
    /\ overlap = 0
    /\ NotCalled

TokenizeCall ==
    /\ zpc = "call"
    /\ zpc' = "tokenized"
    /\ tokens' = Tokenize(text)
    /\ UNCHANGED <<args, seqVars, parVars, tokVars, bmVars, ntokens>>

TokenCountCall ==
    /\ zpc = "tokenized"
    /\ zpc' = "done"
    /\ ntokens' = TokenCount(text)
    /\ UNCHANGED <<args, seqVars, parVars, tokVars, bmVars, tokens>>

NextTokenize ==
    \/ TokenizeCall
    \/ TokenCountCall

SpecTokenize == InitTokenize /\ [][NextTokenize]_vars

\* The maximal runs of word characters of the text, in text order, each
\* lowercased.
LoweredRuns ==
    [i \in 1..NumWords(text) |-> ToLowercase(WordsText(text, i, i))]

Tokenized == zpc \in {"tokenized", "done"}

\* C12 as stated: tokenize returns the maximal runs of alphanumeric or
\* apostrophe characters, in text order, each lowercased; no token is empty
\* and no token contains a separator character.
C12_NoSeparatorInTokens ==
    Tokenized =>
        /\ tokens = LoweredRuns
        /\ \A i \in 1..Len(tokens) :
              /\ tokens[i] # <<>>
              /\ \A k \in 1..Len(tokens[i]) : IsWordChar(tokens[i][k].ch)

\* C12 amended: tokenize returns the maximal runs of alphanumeric or
\* apostrophe characters, in text order, each lowercased; no token is
\* empty, an apostrophe never splits a token, a text without word
\* characters gives no token, and the only separator character a token can
\* contain is the combining dot U+0307 that lowercasing U+0130 puts there.
C12_TokensAreLoweredRuns ==
    Tokenized =>
        /\ tokens = LoweredRuns
        /\ Len(tokens) = NumWords(text)
        /\ \A i \in 1..Len(tokens) :
              /\ tokens[i] # <<>>
              /\ \A k \in 1..Len(tokens[i]) :
                    IsWordChar(tokens[i][k].ch) \/ tokens[i][k].ch = "m"
              /\ \A k \in 1..Len(WordsText(text, i, i)) :
                    IsWordChar(WordsText(text, i, i)[k].ch)
        /\ (\A k \in 1..Len(text) : ~IsWordChar(text[k].ch)) => tokens = <<>>

\* C12 happens: a text with a capital letter and an apostrophe inside a
\* word has given two tokens or more.
C12_Witness ==
    /\ Tokenized
    /\ Len(tokens) >= 2
    /\ \E k \in 1..Len(text) : text[k].ch = "A"
    /\ \E i \in 1..Len(tokens) :
          /\ Len(tokens[i]) >= 2
          /\ \E k \in 1..Len(tokens[i]) : tokens[i][k].ch = "'"

\* ============================================================= BM25Index
MaxDocs == 3     \* documents given to BM25Index::new
MaxTopK == 2     \* top_k given to search

\* #[pyo3(signature = (documents, k1=1.2, b=0.75))]: k1 in tenths, b in
\* hundredths.
DefaultK1 == 12
DefaultB == 75

\* The document texts and the query texts the callers use.
DocTexts ==
    {Encode(cs) : cs \in {<<",">>, <<"a">>, <<"b">>,
                          <<"A", " ", "a">>, <<"a", ",", "b">>}}

QueryTexts ==
    {Encode(cs) : cs \in {<<>>, <<"a">>, <<"A", " ", "b">>,
                          <<"a", ",", "a">>, <<"i">>}}

Corpora == UNION {[1..n -> DocTexts] : n \in 0..MaxDocs}

\* *map.entry(key).or_insert(0) += 1
MapInc(m, key) ==
    IF key \in DOMAIN m THEN [m EXCEPT ![key] = @ + 1] ELSE m @@ (key :> 1)

\* *map.get(key).unwrap_or(&0)
MapGet(m, key) == IF key \in DOMAIN m THEN m[key] ELSE 0

\* Mutant of SeenInsert: every occurrence counts as new.
SeenInsertAlways(seen, token) == TRUE

\* seen.insert(token): true when the token was not in the set yet.
SeenInsert(seen, token) == token \notin seen

\* Lines 58-63: the loop over the tokens of one document.
RECURSIVE CountTokens(_, _, _, _)
CountTokens(toks, term_freq, seen, df) ==
    IF toks = <<>> THEN [term_freq |-> term_freq, df |-> df]
    ELSE LET token == Head(toks) IN
         CountTokens(Tail(toks), MapInc(term_freq, token), seen \cup {token},
                     IF SeenInsert(seen, token) THEN MapInc(df, token) ELSE df)

\* Lines 51-66: the loop over the documents.
RECURSIVE IndexDocs(_, _, _, _)
IndexDocs(docs, df, tf, doc_lengths) ==
    IF docs = <<>> THEN [df |-> df, tf |-> tf, doc_lengths |-> doc_lengths]
    ELSE LET toks == Tokenize(Head(docs))
             r == CountTokens(toks, EmptyMap, {}, df)
         IN IndexDocs(Tail(docs), r.df, Append(tf, r.term_freq),
                      Append(doc_lengths, Len(toks)))

RECURSIVE SumSeq(_)
SumSeq(ns) == IF ns = <<>> THEN 0 ELSE Head(ns) + SumSeq(Tail(ns))

\* Mutant of NDocs: the count is kept away from zero.
NDocsAtLeastOne(docs) == IF Len(docs) = 0 THEN 1 ELSE Len(docs)

\* let n_docs = documents.len();
NDocs(docs) == Len(docs)

\* Lines 68-72: the average length, the fraction num / den; 0.0 for no
\* document.
AvgDl(doc_lengths, n_docs) ==
    IF n_docs > 0 THEN [num |-> SumSeq(doc_lengths), den |-> n_docs]
    ELSE [num |-> 0, den |-> 1]

\* BM25Index::new, lines 45-83.
NewIndex(docs, k1, b) ==
    LET r == IndexDocs(docs, EmptyMap, <<>>, <<>>)
        n == NDocs(docs)
    IN [df |-> r.df, tf |-> r.tf, doc_lengths |-> r.doc_lengths,
        avg_dl |-> AvgDl(r.doc_lengths, n), n_docs |-> n, k1 |-> k1, b |-> b]

\* A caller about to build an index.
InitBM25 ==
    /\ text = <<>>
    /\ chunk_size = 0
    /\ overlap = 0
    /\ NotCalled

BM25New ==
    /\ bpc = "new"
    /\ \E docs \in Corpora :
          /\ documents' = docs
          /\ index' = NewIndex(docs, DefaultK1, DefaultB)
    /\ bpc' = "ready"
    /\ UNCHANGED <<args, seqVars, parVars, tokVars, tkzVars,
                   query, top_k, results, quotients, size_ret>>

\* f64::ln in thousandths: LnMilli[k] is ln(k), rounded.
LnMilli == <<0, 693, 1099, 1386, 1609, 1792, 1946, 2079, 2197, 2303, 2398, 2485, 2565, 2639, 2708, 2773>>

\* let idf = ((self.n_docs as f64 - df + 0.5) / (df + 0.5) + 1.0).ln();
\* the argument is (2 n_docs + 2) / (2 df + 1).
IdfMilli(n_docs, df) == LnMilli[2 * n_docs + 2] - LnMilli[2 * df + 1]

\* An f64 score: a number of thousandths, or NaN.
NaN == [nan |-> TRUE, v |-> 0]
Milli(v) == [nan |-> FALSE, v |-> v]

\* score += x
ScoreAdd(s, x) == IF s.nan \/ x.nan THEN NaN ELSE Milli(s.v + x.v)

\* Mutant of Skips: the term score is computed for absent tokens too.
SkipsNever(tf) == FALSE

\* if tf == 0.0 { continue; }
Skips(tf) == tf = 0

\* Lines 107-113: idf * tf_norm for a token with term frequency tf in a
\* document of doc_len tokens.  doc_len / avg_dl is doc_len * den / num; with
\* avg_dl = 0.0 it is NaN for doc_len = 0 and infinite otherwise, which makes
\* tf_norm NaN and 0.
TermScore(ix, tf, df, doc_len) ==
    LET num == ix.avg_dl.num
        den == ix.avg_dl.den
        numer == tf * (ix.k1 + 10) * 100 * num
        denom == tf * 1000 * num + ix.k1 * ((100 - ix.b) * num + ix.b * doc_len * den)
    IN IF num = 0
       THEN IF doc_len = 0 THEN NaN ELSE Milli(0)
       ELSE Milli((IdfMilli(ix.n_docs, df) * numer) \div denom)

\* Lines 98-114: the loop over the query tokens for the document number d
\* (from 1).
RECURSIVE ScoreTokens(_, _, _, _)
ScoreTokens(ix, d, qtoks, score) ==
    IF qtoks = <<>> THEN score
    ELSE LET token == Head(qtoks)
             tf == MapGet(ix.tf[d], token)
             df == MapGet(ix.df, token)
         IN IF Skips(tf)
            THEN ScoreTokens(ix, d, Tail(qtoks), score)
            ELSE ScoreTokens(ix, d, Tail(qtoks),
                             ScoreAdd(score, TermScore(ix, tf, df, ix.doc_lengths[d])))

DocScore(ix, d, qtoks) == ScoreTokens(ix, d, qtoks, Milli(0))

\* Mutant of Positive: documents with score 0 are kept.
PositiveOrZero(score) == ~score.nan /\ score.v >= 0

\* if score > 0.0
Positive(score) == ~score.nan /\ score.v > 0

\* Lines 94-119: the loop over the documents, from document number d on.
RECURSIVE ScoreDocs(_, _, _, _)
ScoreDocs(ix, d, qtoks, scores) ==
    IF d > Len(ix.tf) THEN scores
    ELSE LET score == DocScore(ix, d, qtoks) IN
         ScoreDocs(ix, d + 1, qtoks,
                   IF Positive(score)
                   THEN Append(scores, [doc |-> d - 1, score |-> score.v])
                   ELSE scores)

\* Mutant of Before: the sort is ascending.
BeforeAscending(x, y) == x.score < y.score

\* |a, b| b.1.partial_cmp(&a.1): x goes before y when its score is greater.
Before(x, y) == x.score > y.score

\* scores.sort_by(..): a stable sort; e goes in front of the first entry it
\* is to be before.
RECURSIVE InsertSorted(_, _)
InsertSorted(sorted, e) ==
    IF sorted = <<>> THEN <<e>>
    ELSE IF Before(e, Head(sorted)) THEN <<e>> \o sorted
    ELSE <<Head(sorted)>> \o InsertSorted(Tail(sorted), e)

RECURSIVE SortBy(_, _)
SortBy(scores, sorted) ==
    IF scores = <<>> THEN sorted
    ELSE SortBy(Tail(scores), InsertSorted(sorted, Head(scores)))

\* scores.truncate(top_k)
Truncate(scores, k) == SubSeq(scores, 1, Min(k, Len(scores)))

\* BM25Index::search, lines 90-124.
Search(ix, q, k) ==
    Truncate(SortBy(ScoreDocs(ix, 1, Tokenize(q), <<>>), <<>>), k)

\* The (document, query token position) pairs for which search reaches
\* line 111.
QuotientPairs(ix, q) ==
    LET qtoks == Tokenize(q) IN
    {p \in (1..Len(ix.tf)) \X (1..Len(qtoks)) :
        ~Skips(MapGet(ix.tf[p[1]], qtoks[p[2]]))}

\* Mutant of IndexAfterSearch: search records the query's tokens in df.
RECURSIVE IndexWithQueryTerms(_, _)
IndexWithQueryTerms(ix, qtoks) ==
    IF qtoks = <<>> THEN ix
    ELSE IndexWithQueryTerms(
            IF Head(qtoks) \in DOMAIN ix.df THEN ix
            ELSE [ix EXCEPT !.df = @ @@ (Head(qtoks) :> 0)],
            Tail(qtoks))

\* fn search(&self, ..): the index after the call.
IndexAfterSearch(ix, qtoks) == ix

\* fn __len__(&self) -> usize
Size(ix) == ix.n_docs

BM25Search ==
    /\ bpc \in {"ready", "searched"}
    /\ \E q \in QueryTexts, k \in 0..MaxTopK :
          /\ query' = q
          /\ top_k' = k
          /\ results' = Search(index, q, k)
          /\ quotients' = QuotientPairs(index, q)
          /\ index' = IndexAfterSearch(index, Tokenize(q))
    /\ bpc' = "searched"
    /\ UNCHANGED <<args, seqVars, parVars, tokVars, tkzVars, documents, size_ret>>

BM25Len ==
    /\ bpc \in {"ready", "searched"}
    /\ size_ret' = Size(index)
    /\ UNCHANGED <<args, seqVars, parVars, tokVars, tkzVars,
                   bpc, documents, index, query, top_k, results, quotients>>

NextBM25 ==
    \/ BM25New
    \/ BM25Search
    \/ BM25Len

SpecBM25 == InitBM25 /\ [][NextBM25]_vars

\* ------------------------------------------------- BM25Index: properties
Built == bpc \in {"ready", "searched"}
Searched == bpc = "searched"

\* The token sequence of the document number d (from 1).
TokensOf(d) == Tokenize(documents[d])

TermSet(toks) == {toks[k] : k \in 1..Len(toks)}
Occurrences(toks, t) == Cardinality({k \in 1..Len(toks) : toks[k] = t})
Vocabulary == UNION {TermSet(TokensOf(d)) : d \in 1..Len(documents)}
DocsContaining(t) == {d \in 1..Len(documents) : t \in TermSet(TokensOf(d))}

RECURSIVE SumOver(_, _)
SumOver(m, keys) ==
    IF keys = {} THEN 0
    ELSE LET key == CHOOSE x \in keys : TRUE IN m[key] + SumOver(m, keys \ {key})

\* C13: in a built index df records exactly the terms of the documents, df(t)
\* is the number of documents whose token sequence contains t (so between 1
\* and N), tf[d][t] is the number of occurrences of t in d, and
\* doc_lengths[d] is d's token count, the sum of tf[d].
C13_Statistics ==
    Built =>
        /\ DOMAIN index.df = Vocabulary
        /\ \A t \in Vocabulary :
              /\ index.df[t] = Cardinality(DocsContaining(t))
              /\ 1 <= index.df[t]
              /\ index.df[t] <= index.n_docs
        /\ Len(index.tf) = Len(documents)
        /\ Len(index.doc_lengths) = Len(documents)
        /\ \A d \in 1..Len(documents) :
              /\ DOMAIN index.tf[d] = TermSet(TokensOf(d))
              /\ \A t \in TermSet(TokensOf(d)) :
                    index.tf[d][t] = Occurrences(TokensOf(d), t)
              /\ index.doc_lengths[d] = Len(TokensOf(d))
              /\ index.doc_lengths[d] = SumOver(index.tf[d], DOMAIN index.tf[d])

\* C13 happens: an index over two documents or more in which a term occurs
\* twice in one document and in two documents.
C13_Witness ==
    /\ Built
    /\ Len(documents) >= 2
    /\ \E t \in DOMAIN index.df :
          /\ index.df[t] >= 2
          /\ \E d \in 1..Len(documents) : MapGet(index.tf[d], t) >= 2

QueryTerms == TermSet(Tokenize(query))
SharesQueryTerm(d) == TermSet(TokensOf(d)) \cap QueryTerms # {}

\* C14: every returned score is strictly positive, a document that contains
\* none of the query's tokens is never returned, and a query none of whose
\* tokens occurs in any document gives the empty result.
C14_OnlyPositiveScores ==
    Searched =>
        /\ \A r \in 1..Len(results) :
              /\ results[r].score > 0
              /\ results[r].doc + 1 \in 1..Len(documents)
              /\ SharesQueryTerm(results[r].doc + 1)
        /\ (\A d \in 1..Len(documents) : ~SharesQueryTerm(d)) => results = <<>>

\* C14 happens: a search with room for every document has returned some
\* documents and left out one that has none of the query's tokens.
C14_Witness ==
    /\ Searched
    /\ top_k >= Len(documents)
    /\ results # <<>>
    /\ \E d \in 1..Len(documents) :
          /\ ~SharesQueryTerm(d)
          /\ \A r \in 1..Len(results) : results[r].doc # d - 1

ScoreOf(d) == DocScore(index, d, Tokenize(query))
PositiveDocs == {d \in 1..Len(documents) : ~ScoreOf(d).nan /\ ScoreOf(d).v > 0}
ReturnedDocs == {results[r].doc + 1 : r \in 1..Len(results)}

\* C15: the result has min(top_k, m) entries for m positive-scoring
\* documents, each a positive-scoring document with its score, the scores are
\* non-increasing, no document occurs twice, and no omitted document has a
\* score strictly greater than a returned one.
C15_OrderedAndTruncated ==
    Searched =>
        /\ Len(results) = Min(top_k, Cardinality(PositiveDocs))
        /\ Len(results) <= top_k
        /\ \A r \in 1..Len(results) :
              /\ results[r].doc + 1 \in PositiveDocs
              /\ results[r].score = ScoreOf(results[r].doc + 1).v
        /\ \A r \in 1..(Len(results) - 1) : results[r].score >= results[r + 1].score
        /\ \A r1, r2 \in 1..Len(results) :
              r1 # r2 => results[r1].doc # results[r2].doc
        /\ \A d \in PositiveDocs \ ReturnedDocs :
              \A r \in 1..Len(results) : ScoreOf(d).v <= results[r].score

\* C15 happens: more documents score than top_k allows, and the sort has
\* put a later document in front of an earlier one with a smaller score.
C15_Witness ==
    /\ Searched
    /\ Cardinality(PositiveDocs) > top_k
    /\ \E r \in 1..(Len(results) - 1) :
          /\ results[r].score > results[r + 1].score
          /\ results[r].doc > results[r + 1].doc

\* C16: the index built from no documents has size 0, and every search on
\* it returns the empty sequence.
C16_EmptyCorpus ==
    (Built /\ documents = <<>>) =>
        /\ index.n_docs = 0
        /\ Size(index) = 0
        /\ size_ret \in {-1, 0}
        /\ results = <<>>

\* C16 happens: the index over no documents has been searched with a query
\* that has tokens and a positive top_k, and asked for its size.
C16_Witness ==
    /\ Searched
    /\ documents = <<>>
    /\ Tokenize(query) # <<>>
    /\ top_k > 0
    /\ size_ret = 0

\* C17: once built, the index is what new produced in every state, no step
\* changes it, and a search with the query and top_k of the previous search
\* returns what that search returned.
C17_IndexImmutable ==
    /\ [](Built => index = NewIndex(documents, DefaultK1, DefaultB))
    /\ [][Built => /\ index' = index
                   /\ documents' = documents
                   /\ (Searched /\ query' = query /\ top_k' = top_k)
                         => results' = results]_vars

\* C17 happens: an index over two documents or more has been searched with a
\* result and asked for its size.
C17_Witness ==
    /\ Searched
    /\ Len(documents) >= 2
    /\ results # <<>>
    /\ size_ret = Len(documents)

\* C18: whenever search evaluates |D| / avg_dl the average length is
\* positive; the average length is 0 only when no document has a token, and
\* then no quotient is evaluated and nothing is returned.
C18_NoDivisionByZeroAvg ==
    Built =>
        /\ index.avg_dl.den > 0
        /\ quotients # {} => index.avg_dl.num > 0
        /\ index.avg_dl.num = 0 =>
              /\ \A d \in 1..Len(documents) : TokensOf(d) = <<>>
              /\ quotients = {}
              /\ results = <<>>

\* C18 happens: a corpus of documents without tokens has been searched with
\* a query that has tokens.
C18_Witness ==
    /\ Searched
    /\ Len(documents) >= 1
    /\ index.avg_dl.num = 0
    /\ Tokenize(query) # <<>>
    /\ top_k > 0

====
